---- MODULE Spec2Model ----
(***************************************************************************)
(* Model of the solana-exporter version-compliance core:                   *)
(*   pkg/api  Client      the TTL cache of the authority's minimum-version *)
(*                        records (GetMinRequiredVersion and               *)
(*                        GetNextEpochMinRequiredVersion)                  *)
(*   cmd/solana-exporter  SolanaCollector.Collect and its sub-collections   *)
(*                                                                         *)
(* A version string is a sequence of one-character strings, so that        *)
(* splitting on "." and strconv.Atoi are computed and not assumed.         *)
(* Time is counted in hours; 0 is Go's zero time.Time.                     *)
(***************************************************************************)
EXTENDS Integers, Sequences, FiniteSets, TLC

VARIABLES
    cache,        \* api.Client.cache: the struct shared by both lookup kinds
    now,          \* wall clock, in hours
    ret,          \* the last call of the cache (in this pass) and what it returned
    written,      \* history: per kind, the last successful fetch of that kind
    config,       \* SolanaCollector.config (ExporterConfig), fixed at start-up
    isFiredancer, \* SolanaCollector.isFiredancer
    pc,           \* where the pass (Collect) stands: the step to run next
    executed,     \* history: the steps the pass has run, in order
    ch,           \* what the step that ran last sent on the metrics channel
    samples,      \* the compliance samples the pass has sent so far
    voteFailed,   \* history: GetVoteAccounts failed in this pass
    nodeCluster,  \* the cluster of the node's genesis hash, "" if the mapping knows none
    nodeVersion,  \* the version the node runs
    answers,      \* history: what the collaborators answered to the step that ran last
    cmp,          \* a call of compareVersions: its arguments and, once made, its result
    nodeEpoch,    \* the epoch the node is in, which GetEpochInfo reports
    mu,           \* api.Client.mu (sync.RWMutex): who holds it for reading and for writing
    calls,        \* per goroutine, the call of the cache it is making and where it stands
    passes,       \* per goroutine, the pass (Collect) it is running and where it stands
    votes         \* a call of collectVoteAccounts: its configuration, the answer of
                  \* GetVoteAccounts and, once made, what it sent on the channel

cacheVars == <<cache, now, ret, written>>

concVars == <<mu, calls, passes>>

passVars == <<config, isFiredancer, pc, executed, ch, samples, voteFailed, nodeCluster, nodeVersion, answers, cmp,
              nodeEpoch, concVars, votes>>

vars == <<cache, now, ret, written, config, isFiredancer, pc, executed, ch, samples, voteFailed, nodeCluster, nodeVersion,
          answers, cmp, nodeEpoch, mu, calls, passes, votes>>

-----------------------------------------------------------------------------
(* Bounds *)

MaxTime == 7         \* the clock stops here
TickHours == 3       \* hours that pass in one Tick
MaxRecords == 2      \* longest record list the authority returns to a direct call
PassMaxRecords == 1  \* longest record list the authority returns during a pass
MaxParts == 3        \* most components of a generated version string
MaxGoroutines == 2   \* goroutines that call the cache, or run a pass, at the same time
MaxOrderParts == 2   \* most components of a version string compared with two others
MaxAccounts == 2     \* most vote accounts GetVoteAccounts returns, both lists together

(* Program constants *)

CacheTimeout == 6    \* 6 * time.Hour

-----------------------------------------------------------------------------
(* Values *)

Empty == << >>
V_1_0 == <<"1", ".", "0">>
V_1_1 == <<"1", ".", "1">>
V_0_5 == <<"0", ".", "5">>
V_0_6 == <<"0", ".", "6">>

Clusters == {"mainnet-beta", "testnet"}

Kinds == {"current", "next"}

\* Epochs the node reports (GetEpochInfo).
NodeEpochs == {797, 798}

\* One element of ValidatorEpochStats.Data.  Only the fields the client reads
\* are kept: Cluster, AgaveMaxVersion, FiredancerMaxVersion and
\* InheritedFromPrevEpoch are decoded and never used.
AuthorityRecords ==
    { [Epoch |-> 796, AgaveMinVersion |-> Empty, FiredancerMinVersion |-> V_0_6],
      [Epoch |-> 797, AgaveMinVersion |-> V_1_0, FiredancerMinVersion |-> V_0_5],
      [Epoch |-> 798, AgaveMinVersion |-> V_1_1, FiredancerMinVersion |-> Empty] }

RECURSIVE SeqsUpTo(_, _)
SeqsUpTo(S, n) ==
    IF n = 0 THEN { << >> }
    ELSE LET shorter == SeqsUpTo(S, n - 1)
         IN  shorter \cup { Append(s, x) : s \in shorter, x \in S }

\* stats.Data as decoded from a well-formed body
DataLists == SeqsUpTo(AuthorityRecords, MaxRecords)

\* What c.HttpClient.Do and the JSON decoder can produce.
HttpOutcomes ==
    { [st |-> "neterr", Data |-> << >>], [st |-> "badjson", Data |-> << >>] }
    \cup { [st |-> "ok", Data |-> d] : d \in DataLists }

PassHttpOutcomes == { h \in HttpOutcomes : Len(h.Data) <= PassMaxRecords }

\* What c.rpcClient.GetEpochInfo can produce.
EpochOutcomes ==
    { [ok |-> FALSE, Epoch |-> 0] } \cup { [ok |-> TRUE, Epoch |-> e] : e \in NodeEpochs }

-----------------------------------------------------------------------------
(* api.Client *)

\* The zero value of the cache struct (NewClient leaves it unset).
NewCache ==
    [ agaveVersion |-> Empty, firedancerVersion |-> Empty,
      nextAgaveVersion |-> Empty, nextFiredancerVersion |-> Empty,
      lastCheck |-> 0, epoch |-> 0, nextEpoch |-> 0 ]

\* E is the epoch the node reported to the fetch.
NoFetch == [at |-> 0, cluster |-> "", agave |-> Empty, fd |-> Empty, epoch |-> 0, E |-> 0]

\* after tells whether the call made before this one failed.
NoCall ==
    [ op |-> "none", arg |-> "", at |-> 0, hit |-> FALSE, http |-> 0, rpc |-> 0, epOk |-> FALSE,
      Data |-> << >>, E |-> 0, prev |-> NoFetch, after |-> FALSE,
      agave |-> Empty, cluster |-> "", epoch |-> 0, fd |-> Empty, err |-> "none" ]

\* !c.cache.lastCheck.IsZero() && time.Since(c.cache.lastCheck) < c.cacheTimeout
CacheValid_sameEpoch(c, t) ==
    c.lastCheck # 0 /\ t - c.lastCheck < CacheTimeout /\ c.epoch = nodeEpoch
CacheValid_reversed(c, t) == c.lastCheck # 0 /\ t - c.lastCheck > CacheTimeout
CacheValid(c, t) == c.lastCheck # 0 /\ t - c.lastCheck < CacheTimeout

\* for i := range stats.Data { if stats.Data[i].Epoch == e { ...; break } }
\* 0 stands for the nil matchingEntry.
FirstMatch(data, e) ==
    IF \E i \in DOMAIN data : data[i].Epoch = e
    THEN CHOOSE i \in DOMAIN data :
            /\ data[i].Epoch = e
            /\ \A j \in DOMAIN data : data[j].Epoch = e => i <= j
    ELSE 0

\* The record GetMinRequiredVersion works with: the one of the current
\* epoch, else &stats.Data[0].
matchingEntry_first(data, e) == data[1]
matchingEntry(data, e) ==
    LET i == FirstMatch(data, e)
    IN  IF i # 0 THEN data[i] ELSE data[1]

\* The record GetNextEpochMinRequiredVersion works with: the one of the next
\* epoch, else the one of the current epoch, else the first.
nextMatchingEntry_current(data, e) == matchingEntry(data, e)
nextMatchingEntry(data, e) ==
    LET i == FirstMatch(data, e + 1)
    IN  IF i # 0 THEN data[i] ELSE matchingEntry(data, e)

\* The entry of a kind as the struct holds it.
Entry(c, kind) ==
    IF kind = "current"
    THEN [agave |-> c.agaveVersion, fd |-> c.firedancerVersion, epoch |-> c.epoch]
    ELSE [agave |-> c.nextAgaveVersion, fd |-> c.nextFiredancerVersion, epoch |-> c.nextEpoch]

\* c.cache.<fields of kind> = ...; c.cache.lastCheck = time.Now()
StoreEntry_requestedEpoch(c, kind, m, e, t) ==
    IF kind = "current"
    THEN [c EXCEPT !.agaveVersion = m.AgaveMinVersion,
                   !.firedancerVersion = m.FiredancerMinVersion,
                   !.epoch = e, !.lastCheck = t]
    ELSE [c EXCEPT !.nextAgaveVersion = m.AgaveMinVersion,
                   !.nextFiredancerVersion = m.FiredancerMinVersion,
                   !.nextEpoch = e + 1, !.lastCheck = t]
StoreEntry(c, kind, m, e, t) ==
    IF kind = "current"
    THEN [c EXCEPT !.agaveVersion = m.AgaveMinVersion,
                   !.firedancerVersion = m.FiredancerMinVersion,
                   !.epoch = m.Epoch, !.lastCheck = t]
    ELSE [c EXCEPT !.nextAgaveVersion = m.AgaveMinVersion,
                   !.nextFiredancerVersion = m.FiredancerMinVersion,
                   !.nextEpoch = m.Epoch, !.lastCheck = t]

\* The early return a fetch takes, "none" if it takes none: transport error,
\* decode error, empty list, failed epoch lookup, empty agave_min_version of
\* the record m it selected.
FetchError_bothFields(http, ep, m) ==
    IF http.st = "neterr" THEN "network"
    ELSE IF http.st = "badjson" THEN "decode"
    ELSE IF Len(http.Data) = 0 THEN "nodata"
    ELSE IF ~ep.ok THEN "epoch"
    ELSE IF m.AgaveMinVersion = Empty \/ m.FiredancerMinVersion = Empty THEN "missing"
    ELSE "none"
FetchError_epochFirst(http, ep, m) ==
    IF http.st = "neterr" THEN "network"
    ELSE IF ~ep.ok THEN "epoch"
    ELSE IF http.st = "badjson" THEN "decode"
    ELSE IF Len(http.Data) = 0 THEN "nodata"
    ELSE IF m.AgaveMinVersion = Empty THEN "missing"
    ELSE "none"
FetchError(http, ep, m) ==
    IF http.st = "neterr" THEN "network"
    ELSE IF http.st = "badjson" THEN "decode"
    ELSE IF Len(http.Data) = 0 THEN "nodata"
    ELSE IF ~ep.ok THEN "epoch"
    ELSE IF m.AgaveMinVersion = Empty THEN "missing"
    ELSE "none"

\* return "", cluster, 0, "", fmt.Errorf(...)
Failure_stale(call, e) ==
    [call EXCEPT !.agave = call.prev.agave, !.cluster = call.arg, !.epoch = call.prev.epoch,
                 !.fd = call.prev.fd, !.err = e]
Failure(call, e) ==
    [call EXCEPT !.agave = Empty, !.cluster = call.arg, !.epoch = 0, !.fd = Empty, !.err = e]

\* One call of the cache for a kind: the cache it leaves, what it returns and
\* the history of successful fetches.  http and ep are the answers of the
\* authority endpoint and of GetEpochInfo, used only if the call gets there.
Resolve_stampFirst(kind, cluster, c, t, w, http, ep) ==
    LET m == IF Len(http.Data) = 0 THEN [Epoch |-> 0, AgaveMinVersion |-> Empty, FiredancerMinVersion |-> Empty]
             ELSE IF kind = "current" THEN matchingEntry(http.Data, ep.Epoch)
             ELSE nextMatchingEntry(http.Data, ep.Epoch)
        e == FetchError(http, ep, m)
        call == [NoCall EXCEPT !.op = kind, !.arg = cluster, !.at = t, !.prev = w[kind]]
        fetch == [call EXCEPT !.http = 1,
                              !.Data = http.Data,
                              !.rpc = IF e \in {"epoch", "missing", "none"} THEN 1 ELSE 0,
                              !.epOk = e \in {"epoch", "missing", "none"} /\ ep.ok,
                              !.E = IF e \in {"missing", "none"} THEN ep.Epoch ELSE 0]
    IN  IF CacheValid(c, t)
        THEN [ cache |-> c, written |-> w,
               ret |-> [call EXCEPT !.hit = TRUE, !.agave = Entry(c, kind).agave,
                                    !.cluster = cluster, !.epoch = Entry(c, kind).epoch,
                                    !.fd = Entry(c, kind).fd] ]
        ELSE IF e # "none"
        THEN [cache |-> [c EXCEPT !.lastCheck = t], written |-> w, ret |-> Failure(fetch, e)]
        ELSE [ cache |-> StoreEntry(c, kind, m, ep.Epoch, t),
               written |-> [w EXCEPT ![kind] =
                               [at |-> t, cluster |-> cluster, agave |-> m.AgaveMinVersion,
                                fd |-> m.FiredancerMinVersion, epoch |-> m.Epoch, E |-> ep.Epoch]],
               ret |-> [fetch EXCEPT !.agave = m.AgaveMinVersion, !.cluster = cluster,
                                     !.epoch = m.Epoch, !.fd = m.FiredancerMinVersion] ]
Resolve(kind, cluster, c, t, w, http, ep) ==
    LET m == IF Len(http.Data) = 0 THEN [Epoch |-> 0, AgaveMinVersion |-> Empty, FiredancerMinVersion |-> Empty]
             ELSE IF kind = "current" THEN matchingEntry(http.Data, ep.Epoch)
             ELSE nextMatchingEntry(http.Data, ep.Epoch)
        e == FetchError(http, ep, m)
        call == [NoCall EXCEPT !.op = kind, !.arg = cluster, !.at = t, !.prev = w[kind]]
        fetch == [call EXCEPT !.http = 1,
                              !.Data = http.Data,
                              !.rpc = IF e \in {"epoch", "missing", "none"} THEN 1 ELSE 0,
                              !.epOk = e \in {"epoch", "missing", "none"} /\ ep.ok,
                              !.E = IF e \in {"missing", "none"} THEN ep.Epoch ELSE 0]
    IN  IF CacheValid(c, t)
        THEN [ cache |-> c, written |-> w,
               ret |-> [call EXCEPT !.hit = TRUE, !.agave = Entry(c, kind).agave,
                                    !.cluster = cluster, !.epoch = Entry(c, kind).epoch,
                                    !.fd = Entry(c, kind).fd] ]
        ELSE IF e # "none"
        THEN [cache |-> c, written |-> w, ret |-> Failure(fetch, e)]
        ELSE [ cache |-> StoreEntry(c, kind, m, ep.Epoch, t),
               written |-> [w EXCEPT ![kind] =
                               [at |-> t, cluster |-> cluster, agave |-> m.AgaveMinVersion,
                                fd |-> m.FiredancerMinVersion, epoch |-> m.Epoch, E |-> ep.Epoch]],
               ret |-> [fetch EXCEPT !.agave = m.AgaveMinVersion, !.cluster = cluster,
                                     !.epoch = m.Epoch, !.fd = m.FiredancerMinVersion] ]

-----------------------------------------------------------------------------
(* cmd/solana-exporter: helpers *)

Digits == <<"0", "1", "2", "3", "4", "5", "6", "7", "8", "9">>

IsDigit(ch1) == \E d \in DOMAIN Digits : Digits[d] = ch1

DigitVal(ch1) == (CHOOSE d \in DOMAIN Digits : Digits[d] = ch1) - 1

\* fmt.Sprintf("%d", n) for n >= 0
RECURSIVE Itoa(_)
Itoa(n) == IF n < 10 THEN <<Digits[n + 1]>> ELSE Itoa(n \div 10) \o <<Digits[(n % 10) + 1]>>

\* strings.Split(s, "."): the pieces between the dots, one piece more than
\* there are dots.
RECURSIVE Split(_)
Split(s) ==
    IF \A i \in DOMAIN s : s[i] # "."
    THEN <<s>>
    ELSE LET d == CHOOSE i \in DOMAIN s : s[i] = "." /\ \A j \in 1..(i - 1) : s[j] # "."
         IN  <<SubSeq(s, 1, d - 1)>> \o Split(SubSeq(s, d + 1, Len(s)))

\* v, _ := strconv.Atoi(p): the value of a run of digits, 0 when p does not
\* parse (empty, or holding another character).
RECURSIVE DigitsValue(_)
DigitsValue(p) ==
    IF Len(p) = 0 THEN 0
    ELSE 10 * DigitsValue(SubSeq(p, 1, Len(p) - 1)) + DigitVal(p[Len(p)])

Atoi(p) == IF Len(p) > 0 /\ \A i \in DOMAIN p : IsDigit(p[i]) THEN DigitsValue(p) ELSE 0

\* compareVersions: -1, 0 or 1
RECURSIVE compareFrom(_, _, _, _)
compareFrom(aParts, bParts, i, maxLen) ==
    IF i > maxLen THEN 0
    ELSE LET aVal == IF i <= Len(aParts) THEN Atoi(aParts[i]) ELSE 0
             bVal == IF i <= Len(bParts) THEN Atoi(bParts[i]) ELSE 0
         IN  IF aVal < bVal THEN -1
             ELSE IF aVal > bVal THEN 1
             ELSE compareFrom(aParts, bParts, i + 1, maxLen)

\* strings.TrimPrefix(version, "v")
TrimPrefix(s) == IF Len(s) > 0 /\ s[1] = "v" THEN SubSeq(s, 2, Len(s)) ELSE s

compareVersions_trimPrefix(a, b) ==
    LET aParts == Split(TrimPrefix(a))
        bParts == Split(TrimPrefix(b))
        maxLen == IF Len(bParts) > Len(aParts) THEN Len(bParts) ELSE Len(aParts)
    IN  compareFrom(aParts, bParts, 1, maxLen)
compareVersions_shorter(a, b) ==
    LET aParts == Split(a)
        bParts == Split(b)
        minLen == IF Len(bParts) < Len(aParts) THEN Len(bParts) ELSE Len(aParts)
    IN  compareFrom(aParts, bParts, 1, minLen)
compareVersions(a, b) ==
    LET aParts == Split(a)
        bParts == Split(b)
        maxLen == IF Len(bParts) > Len(aParts) THEN Len(bParts) ELSE Len(aParts)
    IN  compareFrom(aParts, bParts, 1, maxLen)

BoolToFloat64(b) == IF b THEN 1 ELSE 0

\* f, _ := strconv.ParseFloat(p, 64) for a component made of digits, "x" and
\* "v": the value of a run of digits, 0 when p does not parse.
ParseFloat(p) == IF Len(p) > 0 /\ \A i \in DOMAIN p : IsDigit(p[i]) THEN DigitsValue(p) ELSE 0

\* parseVersionToNumber (desc.go): major*1e4 + minor*1e2 + patch of the
\* version without its "v" prefix, 0 for fewer than three components.
parseVersionToNumber(version) ==
    LET parts == Split(TrimPrefix(version))
    IN  IF Len(parts) >= 3
        THEN ParseFloat(parts[1]) * 10000 + ParseFloat(parts[2]) * 100 + ParseFloat(parts[3])
        ELSE 0

\* Arguments of compareVersions.  A version string is given by its components:
\* the characters of each and the integer the component stands for, 0 for a
\* component that is no number.
Tok(chars, value) == [chars |-> chars, value |-> value]

GenTokens ==
    { Tok(<<"0">>, 0), Tok(<<"9">>, 9), Tok(<<"1", "0">>, 10), Tok(<<"x">>, 0) }

RECURSIVE PartsUpTo(_)
PartsUpTo(n) ==
    IF n = 1 THEN { <<t>> : t \in GenTokens }
    ELSE PartsUpTo(n - 1) \cup { Append(p, t) : p \in { q \in PartsUpTo(n - 1) : Len(q) = n - 1 },
                                                t \in GenTokens }

P_1_10_0 == << Tok(<<"1">>, 1), Tok(<<"1", "0">>, 10), Tok(<<"0">>, 0) >>
P_1_9_9 == << Tok(<<"1">>, 1), Tok(<<"9">>, 9), Tok(<<"9">>, 9) >>
P_1_2 == << Tok(<<"1">>, 1), Tok(<<"2">>, 2) >>
P_1_2_0 == << Tok(<<"1">>, 1), Tok(<<"2">>, 2), Tok(<<"0">>, 0) >>
P_2_2_15 == << Tok(<<"2">>, 2), Tok(<<"2">>, 2), Tok(<<"1", "5">>, 15) >>
P_2_2_14 == << Tok(<<"2">>, 2), Tok(<<"2">>, 2), Tok(<<"1", "4">>, 14) >>
P_empty == << Tok(<< >>, 0) >>
P_1_0_0 == << Tok(<<"1">>, 1), Tok(<<"0">>, 0), Tok(<<"0">>, 0) >>
P_v1_0_0 == << Tok(<<"v", "1">>, 0), Tok(<<"0">>, 0), Tok(<<"0">>, 0) >>

VersionInputs ==
    PartsUpTo(MaxParts) \cup { P_1_10_0, P_1_9_9, P_1_2, P_1_2_0, P_2_2_15, P_2_2_14, P_empty,
                               P_1_0_0, P_v1_0_0 }

\* The string whose components are parts: the components with a "." between.
RECURSIVE Join(_)
Join(parts) ==
    IF Len(parts) = 1 THEN parts[1].chars
    ELSE Join(SubSeq(parts, 1, Len(parts) - 1)) \o <<".">> \o parts[Len(parts)].chars

\* The results of compareVersions on the pairs made of three strings a, b, c
\* and of a and b with ".0" appended: xy is compareVersions(x, y), a0 is a
\* with one ".0" appended, a00 with two.
NoOrder == [aa |-> 0, ba |-> 0, bc |-> 0, ac |-> 0, a0b |-> 0, a00b |-> 0, ab0 |-> 0, a0b0 |-> 0]

\* r is compareVersions(a, b); na and nb are parseVersionToNumber of the two
\* strings; c is a third string and rs the results with it, when there is one.
NoCompare ==
    [ a |-> << >>, b |-> << >>, c |-> << >>, done |-> TRUE, r |-> 0, na |-> 0, nb |-> 0,
      rs |-> NoOrder ]

\* Version strings all of whose components are numbers.
NumTokens == { t \in GenTokens : Len(t.chars) > 0 /\ \A i \in DOMAIN t.chars : IsDigit(t.chars[i]) }

RECURSIVE NumPartsUpTo(_)
NumPartsUpTo(n) ==
    IF n = 1 THEN { <<t>> : t \in NumTokens }
    ELSE NumPartsUpTo(n - 1) \cup { Append(p, t) : p \in { q \in NumPartsUpTo(n - 1) : Len(q) = n - 1 },
                                                   t \in NumTokens }

OrderInputs == NumPartsUpTo(MaxOrderParts)

\* version + ".0"
WithZero(s) == s \o <<".", "0">>

-----------------------------------------------------------------------------
(* cmd/solana-exporter: the collector *)

\* ExporterConfig: light mode on or off; the identity the operator expects.
ActiveIdentity == "id1"

Configs == { [LightMode |-> lm] : lm \in BOOLEAN }

\* The versions a node may run.
NodeVersions == { V_1_0, V_0_5 }

\* GetVersion: the call fails, or it returns the version the node runs.
VersionAnswers(nv) == { [ok |-> FALSE, version |-> Empty], [ok |-> TRUE, version |-> nv] }

\* GetFiredancerMetrics: a transport error, or a response with a status code.
ProbeAnswers == { [ok |-> FALSE, StatusCode |-> 0], [ok |-> TRUE, StatusCode |-> 200],
                  [ok |-> TRUE, StatusCode |-> 503] }

\* GetGenesisHash, then rpc.GetClusterFromGenesisHash on the hash: the call
\* fails, or it returns the node's hash, which the mapping knows or does not
\* know (returning the empty cluster name with its error).
GenesisAnswers(nc) ==
    { [ok |-> FALSE, known |-> FALSE, cluster |-> ""],
      [ok |-> TRUE, known |-> nc # "", cluster |-> nc] }

IdentityAnswers == { [ok |-> FALSE, identity |-> ""] }
                   \cup { [ok |-> TRUE, identity |-> i] : i \in {"id1", "id2"} }

\* GetHealth with ExtractHealthAndNumSlotsBehind applied to its result.
HealthAnswers ==
    [ rpcErr : BOOLEAN, isHealthy : BOOLEAN, isHealthyErr : BOOLEAN, numSlotsBehindErr : BOOLEAN ]

\* A sample or an invalid-sample marker of a metric family.  Values of the
\* passthrough families are not modelled (value 0).
Sample(family) ==
    [ family |-> family, valid |-> TRUE, err |-> "", value |-> 0,
      version |-> Empty, isFd |-> "", required |-> Empty, agave |-> Empty, fd |-> Empty,
      cluster |-> "", epoch |-> Empty, identity |-> "", state |-> "" ]

\* GaugeDesc.NewInvalidMetric(err); e is "nil" when the error passed is nil.
NewInvalidMetric(family, e) == [Sample(family) EXCEPT !.valid = FALSE, !.err = e]

VoteFamilies ==
    { "ValidatorActiveStake", "ClusterActiveStake", "ValidatorLastVote", "ClusterLastVote",
      "ValidatorRootSlot", "ClusterRootSlot", "ValidatorDelinquent", "ClusterValidatorCount" }

\* The families whose samples later steps of a pass are compared with.
ComplianceFamilies ==
    { "NodeVersion", "FoundationMinRequiredVersion", "NodeIsOutdated", "NodeNeedsUpdate" }

Keep(batch) == { x \in batch : x.family \in ComplianceFamilies }

\* No collaborator was asked.  rpc counts the calls of the RPC client the
\* step made; ctx is the context.Context the step passed to them and to the
\* cache: "ctx", the one Collect creates for the pass, or "background",
\* context.Background().
NoAnswers == [version |-> "none", probe |-> "none", genesis |-> "none", rpc |-> 0, ctx |-> "none"]

\* A step made n calls of the RPC client, all with context c.
Asked(n, c) == [NoAnswers EXCEPT !.rpc = n, !.ctx = c]

\* if c.config.LightMode { ...; return } at the head of collectVoteAccounts and
\* of collectBalances
Skips_voteOnly(cfg, step) == cfg.LightMode /\ step = "voteAccounts"
Skips(cfg, step) == cfg.LightMode /\ step \in {"voteAccounts", "balances"}

\* How the cluster lookup ended: the fetch of the genesis hash failed, the
\* mapping did not know the hash, or a cluster name was found.
GenesisOutcome(g) == IF ~g.ok THEN "error" ELSE IF ~g.known THEN "unknown" ELSE "ok"

\* rpc.LamportsInSol
LamportsInSol == 1000000000

\* The vote accounts GetVoteAccounts may list: two validators, "BBB" never one
\* of the configured node keys; the stake is a whole number of SOL.
VoteAccounts ==
    { [ VotePubkey |-> k.vote, NodePubkey |-> k.node, ActivatedStake |-> s * LamportsInSol,
        LastVote |-> lv, RootSlot |-> rs ] :
        k \in { [vote |-> "aaa", node |-> "AAA"], [vote |-> "bbb", node |-> "BBB"] },
        s \in {1, 2}, lv \in {1, 2}, rs \in {0, 1} }

\* ExporterConfig as collectVoteAccounts reads it.
VoteConfigs ==
    { [ LightMode |-> lm, NodeKeys |-> nk, ComprehensiveVoteAccountTracking |-> cv ] :
        lm \in BOOLEAN, nk \in { {}, {"AAA"} }, cv \in BOOLEAN }

\* GetVoteAccounts: the call fails, or it returns the current and the
\* delinquent list.
VoteAccountsAnswers ==
    { [err |-> TRUE, Current |-> << >>, Delinquent |-> << >>] }
    \cup UNION { { [err |-> FALSE, Current |-> SubSeq(l, 1, k), Delinquent |-> SubSeq(l, k + 1, Len(l))] :
                     k \in 0..Len(l) } :
                 l \in UNION { [1..n -> VoteAccounts] : n \in 0..MaxAccounts } }

\* GaugeDesc.MustNewConstMetric(value, labels...), and NewInvalidMetric(err) of
\* the same family.
MustNewConstMetric(family, value, labels) ==
    [family |-> family, valid |-> TRUE, value |-> value, labels |-> labels]

InvalidMetric(family) == [family |-> family, valid |-> FALSE, value |-> 0, labels |-> << >>]

\* No call of collectVoteAccounts.
NoVotes ==
    [ config |-> [LightMode |-> FALSE, NodeKeys |-> {}, ComprehensiveVoteAccountTracking |-> FALSE],
      err |-> FALSE, Current |-> << >>, Delinquent |-> << >>, ch |-> << >>, done |-> FALSE ]

\* float64(account.ActivatedStake)/rpc.LamportsInSol, float64(account.LastVote),
\* float64(account.RootSlot)
stake(account) == account.ActivatedStake \div LamportsInSol
lastVote(account) == account.LastVote
rootSlot(account) == account.RootSlot

\* slices.Contains(c.config.NodeKeys, account.NodePubkey) || c.config.ComprehensiveVoteAccountTracking
Tracked_nodeKeyOnly(cfg, account) == account.NodePubkey \in cfg.NodeKeys
Tracked(cfg, account) ==
    account.NodePubkey \in cfg.NodeKeys \/ cfg.ComprehensiveVoteAccountTracking

\* Go's built-in max
max(x, y) == IF x > y THEN x ELSE y

\* The first loop of collectVoteAccounts over append(Current, Delinquent...):
\* what it sends for the accounts that are left
RECURSIVE validatorSamples(_, _)
validatorSamples(cfg, accounts) ==
    IF accounts = << >> THEN << >>
    ELSE LET account == Head(accounts)
             labels == << account.VotePubkey, account.NodePubkey >>
         IN  (IF Tracked(cfg, account)
              THEN << MustNewConstMetric("ValidatorActiveStake", stake(account), labels),
                      MustNewConstMetric("ValidatorLastVote", lastVote(account), labels),
                      MustNewConstMetric("ValidatorRootSlot", rootSlot(account), labels) >>
              ELSE << >>)
             \o validatorSamples(cfg, Tail(accounts))

\* The same loop: totalStake, maxLastVote and maxRootSlot after the accounts
\* that are left, starting from the values in t (all 0 before the loop)
RECURSIVE totals(_, _)
totals(t, accounts) ==
    IF accounts = << >> THEN t
    ELSE LET account == Head(accounts)
         IN  totals([ totalStake |-> t.totalStake + stake(account),
                      maxLastVote |-> max(t.maxLastVote, lastVote(account)),
                      maxRootSlot |-> max(t.maxRootSlot, rootSlot(account)) ],
                    Tail(accounts))

\* The loops over voteAccounts.Current (value 0) and voteAccounts.Delinquent
\* (value 1)
RECURSIVE delinquentSamples(_, _, _)
delinquentSamples(cfg, accounts, value) ==
    IF accounts = << >> THEN << >>
    ELSE LET account == Head(accounts)
         IN  (IF Tracked(cfg, account)
              THEN << MustNewConstMetric("ValidatorDelinquent", value,
                                         << account.VotePubkey, account.NodePubkey >>) >>
              ELSE << >>)
             \o delinquentSamples(cfg, Tail(accounts), value)

\* The cluster-level samples that end collectVoteAccounts
clusterSamples(t, va) ==
    << MustNewConstMetric("ClusterActiveStake", t.totalStake, << >>),
       MustNewConstMetric("ClusterLastVote", t.maxLastVote, << >>),
       MustNewConstMetric("ClusterRootSlot", t.maxRootSlot, << >>),
       MustNewConstMetric("ClusterValidatorCount", Len(va.Current), << "current" >>),
       MustNewConstMetric("ClusterValidatorCount", Len(va.Delinquent), << "delinquent" >>) >>

\* The markers collectVoteAccounts sends when GetVoteAccounts fails, in order
VoteAccountsMarkers ==
    << InvalidMetric("ValidatorActiveStake"), InvalidMetric("ClusterActiveStake"),
       InvalidMetric("ValidatorLastVote"), InvalidMetric("ClusterLastVote"),
       InvalidMetric("ValidatorRootSlot"), InvalidMetric("ClusterRootSlot"),
       InvalidMetric("ValidatorDelinquent"), InvalidMetric("ClusterValidatorCount") >>

\* What collectVoteAccounts sends on the channel, in order
VoteAccountsSent(cfg, va) ==
    IF Skips(cfg, "voteAccounts") THEN << >>
    ELSE IF va.err THEN VoteAccountsMarkers
    ELSE LET all == va.Current \o va.Delinquent
             zero == [totalStake |-> 0, maxLastVote |-> 0, maxRootSlot |-> 0]
         IN  validatorSamples(cfg, all)
             \o delinquentSamples(cfg, va.Current, 0)
             \o delinquentSamples(cfg, va.Delinquent, 1)
             \o clusterSamples(totals(zero, all), va)

-----------------------------------------------------------------------------
(* Goroutines: concurrent calls of the cache, concurrent passes *)

Goroutines == 1..MaxGoroutines

\* c.mu, unlocked: no reader holds it, no writer (0) holds it.
Unlocked == [readers |-> {}, writer |-> 0]

NoRecord == [Epoch |-> 0, AgaveMinVersion |-> Empty, FiredancerMinVersion |-> Empty]

\* A goroutine that is not calling the cache.  Data is the list it received
\* (stats.Data), m the record it selected; agave, fd, epoch and err are the
\* locals it returns; hit tells that it found the cache fresh.
NoResolve ==
    [ pc |-> "idle", Data |-> << >>, m |-> NoRecord, agave |-> Empty, fd |-> Empty, epoch |-> 0,
      err |-> "none", hit |-> FALSE ]

\* A goroutine that is not running a pass.  detected tells whether its own
\* probe found Firedancer; outdated and needsUpdate are the is_firedancer
\* labels its two compliance steps read from the collector.
NoPass == [pc |-> "idle", detected |-> FALSE, outdated |-> "none", needsUpdate |-> "none"]

-----------------------------------------------------------------------------
(* The cache driven directly, as pkg/api's tests drive it *)

Init ==
    /\ cache = NewCache
    /\ now = 1
    /\ ret = NoCall
    /\ written = [k \in Kinds |-> NoFetch]
    /\ config \in Configs
    /\ isFiredancer = FALSE
    /\ pc = "idle"
    /\ executed = << >>
    /\ ch = {}
    /\ samples = {}
    /\ voteFailed = FALSE
    /\ nodeCluster \in Clusters \cup {""}
    /\ nodeVersion \in NodeVersions
    /\ answers = NoAnswers
    /\ cmp = NoCompare
    /\ nodeEpoch = 797
    /\ mu = Unlocked
    /\ calls = [g \in Goroutines |-> NoResolve]
    /\ passes = [g \in Goroutines |-> NoPass]
    /\ votes = NoVotes

\* The answers of the collaborators that a call starting in cache c at time t
\* can consume: none on a hit; the epoch lookup only after a non-empty list.
\* GetEpochInfo fails or reports the epoch the node is in.
HttpFor(c, t) ==
    IF CacheValid(c, t) THEN { [st |-> "neterr", Data |-> << >>] } ELSE HttpOutcomes

PassHttpFor(c, t) ==
    IF CacheValid(c, t) THEN { [st |-> "neterr", Data |-> << >>] } ELSE PassHttpOutcomes

EpochFor(c, t, http) ==
    IF CacheValid(c, t) \/ http.st # "ok" \/ Len(http.Data) = 0
    THEN { [ok |-> FALSE, Epoch |-> 0] }
    ELSE { o \in EpochOutcomes : o.ok => o.Epoch = nodeEpoch }

GetMinRequiredVersion(cluster) ==
    \E http \in HttpFor(cache, now) : \E ep \in EpochFor(cache, now, http) :
        \E r \in { Resolve("current", cluster, cache, now, written, http, ep) } :
            /\ cache' = r.cache
            /\ ret' = [r.ret EXCEPT !.after = (ret.err # "none")]
            /\ written' = r.written
            /\ UNCHANGED <<now, passVars>>

GetNextEpochMinRequiredVersion(cluster) ==
    \E http \in HttpFor(cache, now) : \E ep \in EpochFor(cache, now, http) :
        \E r \in { Resolve("next", cluster, cache, now, written, http, ep) } :
            /\ cache' = r.cache
            /\ ret' = [r.ret EXCEPT !.after = (ret.err # "none")]
            /\ written' = r.written
            /\ UNCHANGED <<now, passVars>>

Tick ==
    /\ now + TickHours <= MaxTime
    /\ now' = now + TickHours
    /\ UNCHANGED <<cache, ret, written, passVars>>

\* The node enters the next epoch.
EpochAdvance ==
    /\ nodeEpoch + 1 \in NodeEpochs
    /\ nodeEpoch' = nodeEpoch + 1
    /\ UNCHANGED <<cacheVars, config, isFiredancer, pc, executed, ch, samples, voteFailed,
                   nodeCluster, nodeVersion, answers, cmp, concVars, votes>>

NextCache ==
    \/ \E cluster \in Clusters : GetMinRequiredVersion(cluster)
    \/ \E cluster \in Clusters : GetNextEpochMinRequiredVersion(cluster)
    \/ Tick
    \/ EpochAdvance

\* The client alone: the collector's state plays no part.
InitCache ==
    /\ Init
    /\ config = [LightMode |-> FALSE]
    /\ nodeCluster = "mainnet-beta"
    /\ nodeVersion = V_1_0

SpecCache == InitCache /\ [][NextCache]_vars

-----------------------------------------------------------------------------
(* compareVersions applied to a pair of version strings *)

InitCompare ==
    /\ cache = NewCache
    /\ now = 1
    /\ ret = NoCall
    /\ written = [k \in Kinds |-> NoFetch]
    /\ config = [LightMode |-> FALSE]
    /\ isFiredancer = FALSE
    /\ pc = "idle"
    /\ executed = << >>
    /\ ch = {}
    /\ samples = {}
    /\ voteFailed = FALSE
    /\ nodeCluster = "mainnet-beta"
    /\ nodeVersion = V_1_0
    /\ answers = NoAnswers
    /\ cmp \in { [NoCompare EXCEPT !.a = a, !.b = b, !.done = FALSE] : a, b \in VersionInputs }
    /\ nodeEpoch = 797
    /\ mu = Unlocked
    /\ calls = [g \in Goroutines |-> NoResolve]
    /\ passes = [g \in Goroutines |-> NoPass]
    /\ votes = NoVotes

Compare ==
    /\ ~cmp.done
    /\ cmp.c = << >>
    /\ cmp' = [cmp EXCEPT !.done = TRUE, !.r = compareVersions(Join(cmp.a), Join(cmp.b)),
                          !.na = parseVersionToNumber(Join(cmp.a)),
                          !.nb = parseVersionToNumber(Join(cmp.b))]
    /\ UNCHANGED <<cacheVars, config, isFiredancer, pc, executed, ch, samples, voteFailed,
                   nodeCluster, nodeVersion, answers, nodeEpoch, concVars, votes>>

NextCompare == Compare

SpecCompare == InitCompare /\ [][NextCompare]_vars

-----------------------------------------------------------------------------
(* compareVersions applied to the pairs made of three version strings *)

InitOrder ==
    /\ cache = NewCache
    /\ now = 1
    /\ ret = NoCall
    /\ written = [k \in Kinds |-> NoFetch]
    /\ config = [LightMode |-> FALSE]
    /\ isFiredancer = FALSE
    /\ pc = "idle"
    /\ executed = << >>
    /\ ch = {}
    /\ samples = {}
    /\ voteFailed = FALSE
    /\ nodeCluster = "mainnet-beta"
    /\ nodeVersion = V_1_0
    /\ answers = NoAnswers
    /\ cmp \in { [NoCompare EXCEPT !.a = a, !.b = b, !.c = c, !.done = FALSE] :
                    a, b, c \in OrderInputs }
    /\ nodeEpoch = 797
    /\ mu = Unlocked
    /\ calls = [g \in Goroutines |-> NoResolve]
    /\ passes = [g \in Goroutines |-> NoPass]
    /\ votes = NoVotes

CompareAll ==
    /\ ~cmp.done
    /\ cmp.c # << >>
    /\ LET a == Join(cmp.a)
           b == Join(cmp.b)
           c == Join(cmp.c)
       IN  cmp' = [cmp EXCEPT
                      !.done = TRUE,
                      !.r = compareVersions(a, b),
                      !.rs = [ aa |-> compareVersions(a, a),
                               ba |-> compareVersions(b, a),
                               bc |-> compareVersions(b, c),
                               ac |-> compareVersions(a, c),
                               a0b |-> compareVersions(WithZero(a), b),
                               a00b |-> compareVersions(WithZero(WithZero(a)), b),
                               ab0 |-> compareVersions(a, WithZero(b)),
                               a0b0 |-> compareVersions(WithZero(a), WithZero(b)) ]]
    /\ UNCHANGED <<cacheVars, config, isFiredancer, pc, executed, ch, samples, voteFailed,
                   nodeCluster, nodeVersion, answers, nodeEpoch, concVars, votes>>

NextOrder == CompareAll

SpecOrder == InitOrder /\ [][NextOrder]_vars

-----------------------------------------------------------------------------
(* collectVoteAccounts applied to an answer of GetVoteAccounts *)

InitVotes ==
    /\ cache = NewCache
    /\ now = 1
    /\ ret = NoCall
    /\ written = [k \in Kinds |-> NoFetch]
    /\ config = [LightMode |-> FALSE]
    /\ isFiredancer = FALSE
    /\ pc = "idle"
    /\ executed = << >>
    /\ ch = {}
    /\ samples = {}
    /\ voteFailed = FALSE
    /\ nodeCluster = "mainnet-beta"
    /\ nodeVersion = V_1_0
    /\ answers = NoAnswers
    /\ cmp = NoCompare
    /\ nodeEpoch = 797
    /\ mu = Unlocked
    /\ calls = [g \in Goroutines |-> NoResolve]
    /\ passes = [g \in Goroutines |-> NoPass]
    /\ votes \in { [NoVotes EXCEPT !.config = cfg, !.err = va.err, !.Current = va.Current,
                                   !.Delinquent = va.Delinquent] :
                      cfg \in VoteConfigs, va \in VoteAccountsAnswers }

CollectVotes ==
    /\ ~votes.done
    /\ votes' = [votes EXCEPT !.done = TRUE, !.ch = VoteAccountsSent(votes.config, votes)]
    /\ UNCHANGED <<cacheVars, config, isFiredancer, pc, executed, ch, samples, voteFailed,
                   nodeCluster, nodeVersion, answers, cmp, nodeEpoch, concVars>>

NextVotes == CollectVotes

SpecVotes == InitVotes /\ [][NextVotes]_vars

-----------------------------------------------------------------------------
(* GetMinRequiredVersion called by several goroutines at the same time *)

\* What the calls of the cache leave alone.
resolveFrame ==
    <<now, ret, written, config, isFiredancer, pc, executed, ch, samples, voteFailed,
      nodeCluster, nodeVersion, answers, cmp, nodeEpoch, passes, votes>>

\* c.mu.RLock() returns when no writer holds the mutex; c.mu.Lock() when
\* nobody holds it.
CanRLock_unguarded(m) == TRUE
CanRLock(m) == m.writer = 0

CanLock(m) == m.writer = 0 /\ m.readers = {}

\* c.mu.RUnlock() on the miss path (line 56), before the request is made.
ReadersAfterMiss_held(readers, g) == readers
ReadersAfterMiss(readers, g) == readers \ {g}

\* The call returns: an error, or the locals it has set.
Return(call, e) ==
    IF e = "none" THEN [call EXCEPT !.pc = "done", !.Data = << >>, !.m = NoRecord]
    ELSE [NoResolve EXCEPT !.pc = "done", !.err = e]

\* A goroutine calls GetMinRequiredVersion.
Call(g) ==
    /\ calls[g].pc \in {"idle", "done"}
    /\ calls' = [calls EXCEPT ![g] = [NoResolve EXCEPT !.pc = "RLock"]]
    /\ UNCHANGED <<cache, mu, resolveFrame>>

\* line 48
RLock(g) ==
    /\ calls[g].pc = "RLock"
    /\ CanRLock(mu)
    /\ mu' = [mu EXCEPT !.readers = @ \cup {g}]
    /\ calls' = [calls EXCEPT ![g].pc = "check"]
    /\ UNCHANGED <<cache, resolveFrame>>

\* line 49, and line 56 on a miss
Check(g) ==
    /\ calls[g].pc = "check"
    /\ IF CacheValid(cache, now)
       THEN /\ calls' = [calls EXCEPT ![g].pc = "readAgave", ![g].hit = TRUE]
            /\ UNCHANGED mu
       ELSE /\ calls' = [calls EXCEPT ![g].pc = "http"]
            /\ mu' = [mu EXCEPT !.readers = ReadersAfterMiss(@, g)]
    /\ UNCHANGED <<cache, resolveFrame>>

\* line 50
ReadAgave(g) ==
    /\ calls[g].pc = "readAgave"
    /\ calls' = [calls EXCEPT ![g].pc = "readFd", ![g].agave = cache.agaveVersion]
    /\ UNCHANGED <<cache, mu, resolveFrame>>

\* line 51
ReadFd(g) ==
    /\ calls[g].pc = "readFd"
    /\ calls' = [calls EXCEPT ![g].pc = "readEpoch", ![g].fd = cache.firedancerVersion]
    /\ UNCHANGED <<cache, mu, resolveFrame>>

\* lines 52-54: the last read, RUnlock and the return
ReadEpoch(g) ==
    /\ calls[g].pc = "readEpoch"
    /\ calls' = [calls EXCEPT ![g] = Return([@ EXCEPT !.epoch = cache.epoch], "none")]
    /\ mu' = [mu EXCEPT !.readers = @ \ {g}]
    /\ UNCHANGED <<cache, resolveFrame>>

\* lines 58-80: the request to the authority returns
Http(g) ==
    /\ calls[g].pc = "http"
    /\ \E http \in PassHttpOutcomes :
          LET e == FetchError(http, [ok |-> TRUE, Epoch |-> nodeEpoch],
                              [NoRecord EXCEPT !.AgaveMinVersion = V_1_0])
          IN  calls' = [calls EXCEPT ![g] =
                           IF e # "none" THEN Return(@, e)
                           ELSE [@ EXCEPT !.pc = "rpc", !.Data = http.Data]]
    /\ UNCHANGED <<cache, mu, resolveFrame>>

\* lines 83-116: GetEpochInfo returns; the record is selected and checked
Rpc(g) ==
    /\ calls[g].pc = "rpc"
    /\ \E ep \in { o \in EpochOutcomes : o.ok => o.Epoch = nodeEpoch } :
          LET data == calls[g].Data
              m == matchingEntry(data, ep.Epoch)
              e == FetchError([st |-> "ok", Data |-> data], ep, m)
          IN  calls' = [calls EXCEPT ![g] =
                           IF e # "none" THEN Return(@, e)
                           ELSE [@ EXCEPT !.pc = "Lock", !.Data = << >>, !.m = m,
                                          !.agave = m.AgaveMinVersion,
                                          !.fd = m.FiredancerMinVersion,
                                          !.epoch = m.Epoch]]
    /\ UNCHANGED <<cache, mu, resolveFrame>>

\* line 119
Lock(g) ==
    /\ calls[g].pc = "Lock"
    /\ CanLock(mu)
    /\ mu' = [mu EXCEPT !.writer = g]
    /\ calls' = [calls EXCEPT ![g].pc = "writeAgave"]
    /\ UNCHANGED <<cache, resolveFrame>>

\* line 120
WriteAgave(g) ==
    /\ calls[g].pc = "writeAgave"
    /\ cache' = [cache EXCEPT !.agaveVersion = calls[g].agave]
    /\ calls' = [calls EXCEPT ![g].pc = "writeFd"]
    /\ UNCHANGED <<mu, resolveFrame>>

\* line 121
WriteFd(g) ==
    /\ calls[g].pc = "writeFd"
    /\ cache' = [cache EXCEPT !.firedancerVersion = calls[g].fd]
    /\ calls' = [calls EXCEPT ![g].pc = "writeEpoch"]
    /\ UNCHANGED <<mu, resolveFrame>>

\* line 122
WriteEpoch(g) ==
    /\ calls[g].pc = "writeEpoch"
    /\ cache' = [cache EXCEPT !.epoch = calls[g].epoch]
    /\ calls' = [calls EXCEPT ![g].pc = "writeLastCheck"]
    /\ UNCHANGED <<mu, resolveFrame>>

\* lines 123-126: the last write, Unlock and the return
WriteLastCheck(g) ==
    /\ calls[g].pc = "writeLastCheck"
    /\ cache' = [cache EXCEPT !.lastCheck = now]
    /\ mu' = [mu EXCEPT !.writer = 0]
    /\ calls' = [calls EXCEPT ![g] = Return(@, "none")]
    /\ UNCHANGED resolveFrame

NextResolve ==
    \E g \in Goroutines :
        \/ Call(g)
        \/ RLock(g)
        \/ Check(g)
        \/ ReadAgave(g)
        \/ ReadFd(g)
        \/ ReadEpoch(g)
        \/ Http(g)
        \/ Rpc(g)
        \/ Lock(g)
        \/ WriteAgave(g)
        \/ WriteFd(g)
        \/ WriteEpoch(g)
        \/ WriteLastCheck(g)

SpecResolve == InitCache /\ [][NextResolve]_vars

-----------------------------------------------------------------------------
(* cmd/solana-exporter: Collect *)

\* The statement order of Collect: the step that follows a step.
NextStep_detectLate(step) ==
    CASE step = "health" -> "minLedger"
      [] step = "minLedger" -> "firstBlock"
      [] step = "firstBlock" -> "voteAccounts"
      [] step = "voteAccounts" -> "identity"
      [] step = "identity" -> "balances"
      [] step = "balances" -> "minRequired"
      [] step = "minRequired" -> "outdated"
      [] step = "outdated" -> "version"
      [] step = "version" -> "needsUpdate"
      [] step = "needsUpdate" -> "done"
NextStep(step) ==
    CASE step = "health" -> "minLedger"
      [] step = "minLedger" -> "firstBlock"
      [] step = "firstBlock" -> "voteAccounts"
      [] step = "voteAccounts" -> "version"
      [] step = "version" -> "identity"
      [] step = "identity" -> "balances"
      [] step = "balances" -> "minRequired"
      [] step = "minRequired" -> "outdated"
      [] step = "outdated" -> "needsUpdate"
      [] step = "needsUpdate" -> "done"

\* Where Collect goes after a step: every sub-collection returns normally,
\* whether or not its collaborator calls failed.
AfterStep_abortOnError(step, failed) == IF failed THEN "done" ELSE NextStep(step)
AfterStep(step, failed) == NextStep(step)

\* A step has run, sending batch; failed tells whether a call of it failed.
Ran(step, batch, failed) ==
    /\ pc' = AfterStep(step, failed)
    /\ executed' = Append(executed, step)
    /\ ch' = batch
    /\ samples' = samples \cup Keep(batch)

\* What a pass records of a call of the cache: all but the list it fetched.
PassCall(call) == [call EXCEPT !.Data = << >>, !.E = 0]

\* Collect, lines 519-522
BeginCollect ==
    /\ pc \in {"idle", "done"}
    /\ pc' = "health"
    /\ executed' = << >>
    /\ ch' = {}
    /\ samples' = {}
    /\ voteFailed' = FALSE
    /\ ret' = NoCall
    /\ answers' = NoAnswers
    /\ UNCHANGED <<cache, now, written, config, isFiredancer, nodeCluster, nodeVersion, cmp, nodeEpoch, concVars, votes>>

collectHealth ==
    /\ pc = "health"
    /\ \E h \in HealthAnswers :
          Ran("health",
              { IF h.isHealthyErr
                THEN NewInvalidMetric("NodeIsHealthy", IF h.rpcErr THEN "error" ELSE "nil")
                ELSE [Sample("NodeIsHealthy") EXCEPT !.value = BoolToFloat64(h.isHealthy)],
                IF h.numSlotsBehindErr
                THEN NewInvalidMetric("NodeNumSlotsBehind", "error")
                ELSE Sample("NodeNumSlotsBehind") },
              h.isHealthyErr \/ h.numSlotsBehindErr)
    /\ answers' = Asked(1, "ctx")
    /\ UNCHANGED <<cacheVars, config, isFiredancer, voteFailed, nodeCluster, nodeVersion, cmp, nodeEpoch, concVars, votes>>

collectMinimumLedgerSlot ==
    /\ pc = "minLedger"
    /\ \E ok \in BOOLEAN :
          Ran("minLedger",
              { IF ok THEN Sample("NodeMinimumLedgerSlot")
                      ELSE NewInvalidMetric("NodeMinimumLedgerSlot", "error") },
              ~ok)
    /\ answers' = Asked(1, "ctx")
    /\ UNCHANGED <<cacheVars, config, isFiredancer, voteFailed, nodeCluster, nodeVersion, cmp, nodeEpoch, concVars, votes>>

collectFirstAvailableBlock ==
    /\ pc = "firstBlock"
    /\ \E ok \in BOOLEAN :
          Ran("firstBlock",
              { IF ok THEN Sample("NodeFirstAvailableBlock")
                      ELSE NewInvalidMetric("NodeFirstAvailableBlock", "error") },
              ~ok)
    /\ answers' = Asked(1, "ctx")
    /\ UNCHANGED <<cacheVars, config, isFiredancer, voteFailed, nodeCluster, nodeVersion, cmp, nodeEpoch, concVars, votes>>

\* The per-validator samples and the values of the cluster samples are not
\* modelled: a successful fetch sends the cluster-level samples.
collectVoteAccounts ==
    /\ pc = "voteAccounts"
    /\ IF Skips(config, "voteAccounts")
       THEN Ran("voteAccounts", {}, FALSE) /\ answers' = NoAnswers /\ UNCHANGED voteFailed
       ELSE \E ok \in BOOLEAN :
               /\ answers' = Asked(1, "ctx")
               /\ Ran("voteAccounts",
                      IF ok
                      THEN { Sample("ClusterActiveStake"), Sample("ClusterLastVote"),
                             Sample("ClusterRootSlot"),
                             [Sample("ClusterValidatorCount") EXCEPT !.state = "current"],
                             [Sample("ClusterValidatorCount") EXCEPT !.state = "delinquent"] }
                      ELSE { NewInvalidMetric(f, "error") : f \in VoteFamilies },
                      ~ok)
               /\ voteFailed' = ~ok
    /\ UNCHANGED <<cacheVars, config, isFiredancer, nodeCluster, nodeVersion, cmp, nodeEpoch, concVars, votes>>

\* The is_firedancer label that c.isFiredancer gives a compliance sample.
FlagLabel == IF isFiredancer THEN "1" ELSE "0"

\* if err == nil { resp, ferr := ...; if ferr == nil && resp.StatusCode == 200 { ... } }
Detected_anyStatus(v, probe) == v.ok /\ probe.ok
Detected(v, probe) == v.ok /\ probe.ok /\ probe.StatusCode = 200

\* Collect, lines 529-546: the version and the Firedancer probe
detectVersion ==
    /\ pc = "version"
    /\ \E v \in VersionAnswers(nodeVersion) :
       \E probe \in IF v.ok THEN ProbeAnswers ELSE { [ok |-> FALSE, StatusCode |-> 0] } :
          LET detected == Detected(v, probe)
          IN  /\ isFiredancer' = IF detected THEN TRUE ELSE isFiredancer
              /\ answers' = [Asked(IF v.ok THEN 2 ELSE 1, "ctx") EXCEPT
                                !.version = IF v.ok THEN "ok" ELSE "error",
                                !.probe = IF ~v.ok THEN "none"
                                          ELSE IF ~probe.ok THEN "error"
                                          ELSE IF probe.StatusCode = 200 THEN "200"
                                          ELSE "other"]
              /\ Ran("version",
                     { IF ~v.ok
                       THEN NewInvalidMetric("NodeVersion", "error")
                       ELSE [Sample("NodeVersion") EXCEPT
                                !.value = 1, !.version = v.version,
                                !.isFd = IF detected THEN "1" ELSE "0"] },
                     ~v.ok)
    /\ UNCHANGED <<cacheVars, config, voteFailed, nodeCluster, nodeVersion, cmp, nodeEpoch, concVars, votes>>

collectIdentity ==
    /\ pc = "identity"
    /\ \E id \in IdentityAnswers :
          Ran("identity",
              IF ~id.ok
              THEN { NewInvalidMetric("NodeIdentity", "error") }
              ELSE { [Sample("NodeIdentity") EXCEPT !.value = 1, !.identity = id.identity] }
                   \cup (IF ActiveIdentity # ""
                         THEN { [Sample("NodeIsActive") EXCEPT
                                    !.value = IF ActiveIdentity = id.identity THEN 1 ELSE 0,
                                    !.identity = id.identity] }
                         ELSE {}),
              ~id.ok)
    /\ answers' = Asked(1, "ctx")
    /\ UNCHANGED <<cacheVars, config, isFiredancer, voteFailed, nodeCluster, nodeVersion, cmp, nodeEpoch, concVars, votes>>

\* The balances themselves are not modelled: a successful fetch sends the
\* AccountBalances samples.
collectBalances ==
    /\ pc = "balances"
    /\ IF Skips(config, "balances")
       THEN Ran("balances", {}, FALSE) /\ answers' = NoAnswers
       ELSE \E ok \in BOOLEAN :
               /\ answers' = Asked(1, "ctx")
               /\ Ran("balances",
                      { IF ok THEN Sample("AccountBalances")
                              ELSE NewInvalidMetric("AccountBalances", "error") },
                      ~ok)
    /\ UNCHANGED <<cacheVars, config, isFiredancer, voteFailed, nodeCluster, nodeVersion, cmp, nodeEpoch, concVars, votes>>

\* err == nil after GetGenesisHash and rpc.GetClusterFromGenesisHash: the
\* condition under which Collect calls the cache (lines 553-561).
Resolved_fetchedOnly(g) == g.ok
Resolved(g) == g.ok /\ g.known

\* Collect, lines 551-568: the foundation's minimum required version
collectMinRequiredVersion ==
    /\ pc = "minRequired"
    /\ \E g \in GenesisAnswers(nodeCluster) :
          /\ answers' = [Asked(1, "ctx") EXCEPT !.genesis = GenesisOutcome(g)]
          /\ IF ~Resolved(g)
             THEN /\ Ran("minRequired",
                         { NewInvalidMetric("FoundationMinRequiredVersion", "error") }, TRUE)
                  /\ UNCHANGED <<cache, ret, written>>
             ELSE \E http \in PassHttpFor(cache, now) : \E ep \in EpochFor(cache, now, http) :
                  \E r \in { Resolve("current", g.cluster, cache, now, written, http, ep) } :
                     /\ cache' = r.cache
                     /\ ret' = PassCall(r.ret)
                     /\ written' = r.written
                     /\ Ran("minRequired",
                            { IF r.ret.err # "none"
                              THEN NewInvalidMetric("FoundationMinRequiredVersion", r.ret.err)
                              ELSE [Sample("FoundationMinRequiredVersion") EXCEPT
                                       !.value = 1, !.agave = r.ret.agave, !.fd = r.ret.fd,
                                       !.cluster = r.ret.cluster, !.epoch = Itoa(r.ret.epoch)] },
                            r.ret.err # "none")
    /\ UNCHANGED <<now, config, isFiredancer, voteFailed, nodeCluster, nodeVersion, cmp, nodeEpoch, concVars, votes>>

\* The cluster collectNodeIsOutdated and collectNodeNeedsUpdate ask the cache
\* for: "mainnet-beta" unless the genesis hash was fetched, then whatever the
\* mapping returned.
ComplianceCluster(g) == IF g.ok THEN g.cluster ELSE "mainnet-beta"

\* requiredVersion := agaveMinVersion; if c.isFiredancer { requiredVersion = firedancerMinVersion }
RequiredVersion_alwaysAgave(flag, r) == r.agave
RequiredVersion(flag, r) == IF flag THEN r.fd ELSE r.agave

\* The sample of a compliance family: the value and, in the order of the
\* descriptor's labels, is_firedancer, version, required_version, cluster,
\* epoch.
ComplianceSample_swappedLabels(family, flag, version, cluster, r) ==
    [Sample(family) EXCEPT
        !.value = BoolToFloat64(compareVersions(version, RequiredVersion(flag, r)) < 0),
        !.isFd = IF flag THEN "1" ELSE "0",
        !.version = RequiredVersion(flag, r),
        !.required = version,
        !.cluster = cluster,
        !.epoch = Itoa(r.epoch)]
ComplianceSample(family, flag, version, cluster, r) ==
    [Sample(family) EXCEPT
        !.value = BoolToFloat64(compareVersions(version, RequiredVersion(flag, r)) < 0),
        !.isFd = IF flag THEN "1" ELSE "0",
        !.version = version,
        !.required = RequiredVersion(flag, r),
        !.cluster = cluster,
        !.epoch = Itoa(r.epoch)]

\* collectNodeIsOutdated and collectNodeNeedsUpdate, which differ in the
\* lookup kind and in the family.
ComplianceStep(step, kind, family) ==
    /\ pc = step
    /\ \E v \in VersionAnswers(nodeVersion) :
          IF ~v.ok
          THEN /\ Ran(step, {}, TRUE)
               /\ answers' = [Asked(1, "background") EXCEPT !.version = "error"]
               /\ UNCHANGED <<cache, ret, written>>
          ELSE \E g \in GenesisAnswers(nodeCluster) :
               \E http \in PassHttpFor(cache, now) : \E ep \in EpochFor(cache, now, http) :
               \E r \in { Resolve(kind, ComplianceCluster(g), cache, now, written, http, ep) } :
                  /\ cache' = r.cache
                  /\ ret' = PassCall(r.ret)
                  /\ written' = r.written
                  /\ answers' = [Asked(2, "background") EXCEPT
                                    !.version = "ok", !.genesis = GenesisOutcome(g)]
                  /\ Ran(step,
                         IF r.ret.err # "none"
                         THEN {}
                         ELSE { ComplianceSample(family, isFiredancer, v.version,
                                                 ComplianceCluster(g), r.ret) },
                         r.ret.err # "none")
    /\ UNCHANGED <<now, config, isFiredancer, voteFailed, nodeCluster, nodeVersion, cmp, nodeEpoch, concVars, votes>>

collectNodeIsOutdated == ComplianceStep("outdated", "current", "NodeIsOutdated")

collectNodeNeedsUpdate == ComplianceStep("needsUpdate", "next", "NodeNeedsUpdate")

\* The steps of a pass that has begun.
PassStep ==
    \/ collectHealth
    \/ collectMinimumLedgerSlot
    \/ collectFirstAvailableBlock
    \/ collectVoteAccounts
    \/ detectVersion
    \/ collectIdentity
    \/ collectBalances
    \/ collectMinRequiredVersion
    \/ collectNodeIsOutdated
    \/ collectNodeNeedsUpdate

Next ==
    \/ BeginCollect
    \/ PassStep
    \/ Tick

Spec == Init /\ [][Next]_vars

\* Collect runs its statements one after the other on the worker that
\* handles the scrape: a pass that has begun takes its next step as long as
\* the collaborator calls return.
SpecLive == Spec /\ WF_vars(PassStep)

-----------------------------------------------------------------------------
(* Collect called by several goroutines at the same time, one per scrape *)

\* What the version detection and the compliance steps of concurrent passes
\* leave alone; their calls of the cache are those of SpecResolve.
scrapeFrame ==
    <<cacheVars, config, pc, executed, ch, samples, voteFailed, nodeCluster, nodeVersion,
      answers, cmp, nodeEpoch, mu, calls, votes>>

\* A scrape calls Collect on the collector; the steps before the version
\* detection touch no field of the collector.
Scrape(g) ==
    /\ passes[g].pc = "idle"
    /\ passes' = [passes EXCEPT ![g].pc = "version"]
    /\ UNCHANGED <<isFiredancer, scrapeFrame>>

\* Collect, lines 529-546, in goroutine g: the write of c.isFiredancer takes
\* no lock.
ScrapeDetect(g) ==
    /\ passes[g].pc = "version"
    /\ \E v \in VersionAnswers(nodeVersion) :
       \E probe \in IF v.ok THEN ProbeAnswers ELSE { [ok |-> FALSE, StatusCode |-> 0] } :
          /\ isFiredancer' = IF Detected(v, probe) THEN TRUE ELSE isFiredancer
          /\ passes' = [passes EXCEPT ![g].pc = "outdated", ![g].detected = Detected(v, probe)]
    /\ UNCHANGED scrapeFrame

\* collectNodeIsOutdated in goroutine g: it sends nothing ("silent") when a
\* call fails, else a sample whose is_firedancer label is read from
\* c.isFiredancer, without a lock.
ScrapeOutdated(g) ==
    /\ passes[g].pc = "outdated"
    /\ \E ok \in BOOLEAN :
          passes' = [passes EXCEPT ![g].pc = "needsUpdate",
                                   ![g].outdated = IF ok THEN FlagLabel ELSE "silent"]
    /\ UNCHANGED <<isFiredancer, scrapeFrame>>

\* collectNodeNeedsUpdate in goroutine g
ScrapeNeedsUpdate(g) ==
    /\ passes[g].pc = "needsUpdate"
    /\ \E ok \in BOOLEAN :
          passes' = [passes EXCEPT ![g].pc = "done",
                                   ![g].needsUpdate = IF ok THEN FlagLabel ELSE "silent"]
    /\ UNCHANGED <<isFiredancer, scrapeFrame>>

NextScrapes ==
    \E g \in Goroutines :
        \/ Scrape(g)
        \/ ScrapeDetect(g)
        \/ ScrapeOutdated(g)
        \/ ScrapeNeedsUpdate(g)

SpecScrapes == InitCache /\ [][NextScrapes]_vars

-----------------------------------------------------------------------------
(* Properties of the cache *)

\* What a call returned, and a record of the authority, as (agave, fd, epoch).
Returned(r) == [agave |-> r.agave, fd |-> r.fd, epoch |-> r.epoch]

Triple(rec) ==
    [agave |-> rec.AgaveMinVersion, fd |-> rec.FiredancerMinVersion, epoch |-> rec.Epoch]

OtherKind(k) == IF k = "current" THEN "next" ELSE "current"

\* The call was a fetch that succeeded.
FetchedOk(r, k) == r.op = k /\ ~r.hit /\ r.err = "none"

\* C1: a call made while the entry of its kind exists and was written less
\* than CacheTimeout ago issues no authority request and no GetEpochInfo,
\* succeeds, returns what the last successful fetch of that kind stored, and
\* echoes the cluster argument.
C1_HitWithinTTL ==
    (ret.op \in Kinds /\ ret.prev.at # 0 /\ ret.at - ret.prev.at < CacheTimeout)
        => /\ ret.http = 0
           /\ ret.rpc = 0
           /\ ret.err = "none"
           /\ Returned(ret) = [agave |-> ret.prev.agave, fd |-> ret.prev.fd, epoch |-> ret.prev.epoch]
           /\ ret.cluster = ret.arg

C1_Witness ==
    /\ ret.op = "next"
    /\ ret.prev.at # 0
    /\ ret.at > ret.prev.at
    /\ ret.at - ret.prev.at < CacheTimeout
    /\ ret.hit
    /\ ret.agave # Empty

\* C4: a fetch for the current epoch E that succeeds returns a record whose
\* epoch is E if the list has one, and the first record of the list if not; a
\* fetch that fails for an empty agave_min_version had selected that way too.
C4_CurrentSelection ==
    (ret.op = "current" /\ ~ret.hit /\ ret.err \in {"none", "missing"})
        => /\ Len(ret.Data) > 0
           /\ IF \E i \in DOMAIN ret.Data : ret.Data[i].Epoch = ret.E
              THEN \E i \in DOMAIN ret.Data :
                      /\ ret.Data[i].Epoch = ret.E
                      /\ IF ret.err = "none" THEN Returned(ret) = Triple(ret.Data[i])
                                            ELSE ret.Data[i].AgaveMinVersion = Empty
              ELSE IF ret.err = "none" THEN Returned(ret) = Triple(ret.Data[1])
                                       ELSE ret.Data[1].AgaveMinVersion = Empty

C4_Witness ==
    /\ FetchedOk(ret, "current")
    /\ Len(ret.Data) = 2
    /\ ret.Data[1].Epoch = 797
    /\ ret.Data[2].Epoch = 798
    /\ ret.E = 798
    /\ ret.epoch = 798
    /\ ret.agave = V_1_1

\* C5: a fetch for the next epoch, the current one being E, that succeeds
\* returns a record whose epoch is E + 1 if the list has one, else one whose
\* epoch is E if the list has one, else the first record of the list.
C5_NextSelection ==
    (ret.op = "next" /\ ~ret.hit /\ ret.err \in {"none", "missing"})
        => /\ Len(ret.Data) > 0
           /\ LET want == IF \E i \in DOMAIN ret.Data : ret.Data[i].Epoch = ret.E + 1
                          THEN ret.E + 1
                          ELSE IF \E i \in DOMAIN ret.Data : ret.Data[i].Epoch = ret.E
                          THEN ret.E
                          ELSE ret.Data[1].Epoch
                  among == IF \E i \in DOMAIN ret.Data : ret.Data[i].Epoch \in {ret.E, ret.E + 1}
                           THEN DOMAIN ret.Data
                           ELSE {1}
              IN  \E i \in among :
                      /\ ret.Data[i].Epoch = want
                      /\ IF ret.err = "none" THEN Returned(ret) = Triple(ret.Data[i])
                                            ELSE ret.Data[i].AgaveMinVersion = Empty

C5_Witness ==
    /\ FetchedOk(ret, "next")
    /\ Len(ret.Data) = 2
    /\ ret.Data[1].Epoch = 797
    /\ ret.Data[2].Epoch = 798
    /\ ret.E = 797
    /\ ret.epoch = 798

\* C6: the (agave, fd, epoch) an entry holds are those of one record of the
\* authority; after a successful fetch they are those of a record of the list
\* that was fetched, whatever epoch was asked for, and they are what the call
\* returns; a hit on a written entry returns the entry.
C6_EntryIsOneRecord ==
    \A k \in Kinds :
        /\ written[k].at # 0 => \E rec \in AuthorityRecords : Entry(cache, k) = Triple(rec)
        /\ FetchedOk(ret, k) =>
              /\ Entry(cache, k) = Returned(ret)
              /\ \E i \in DOMAIN ret.Data : Triple(ret.Data[i]) = Returned(ret)
        /\ (ret.op = k /\ ret.hit /\ written[k].at # 0) => Returned(ret) = Entry(cache, k)

C6_Witness ==
    /\ FetchedOk(ret, "current")
    /\ ret.E = 798
    /\ ret.epoch = 797
    /\ cache.epoch = 797
    /\ cache.agaveVersion = V_1_0

\* C7: a call that fails leaves every field of the cache as it was.
C7_FailureLeavesCache == [][ret'.err # "none" => cache' = cache]_vars

C7_Witness ==
    /\ ret.op = "current"
    /\ ret.err = "nodata"
    /\ ret.prev.at # 0
    /\ cache.agaveVersion = ret.prev.agave
    /\ cache.lastCheck = ret.prev.at

HasEpoch(data, e) == \E i \in DOMAIN data : data[i].Epoch = e

LeastOfEpoch(data, e) ==
    CHOOSE i \in DOMAIN data : data[i].Epoch = e /\ \A j \in 1..(i - 1) : data[j].Epoch # e

Designated(kind, data, e) ==
    IF kind = "next" /\ HasEpoch(data, e + 1) THEN data[LeastOfEpoch(data, e + 1)]
    ELSE IF HasEpoch(data, e) THEN data[LeastOfEpoch(data, e)]
    ELSE data[1]

NoVersions == [agave |-> Empty, fd |-> Empty, epoch |-> 0]

-----------------------------------------------------------------------------
(* Properties of compareVersions *)

\* The integer at position i of a version given by its components.
ValueAt(parts, i) == IF i <= Len(parts) THEN parts[i].value ELSE 0

C28_PrefixNotStripped ==
    cmp.done /\ cmp.a # << >> =>
        /\ (Len(cmp.a[1].chars) > 0 /\ cmp.a[1].chars[1] = "v") =>
               /\ Atoi(Split(Join(cmp.a))[1]) = 0
               /\ cmp.na = parseVersionToNumber(TrimPrefix(Join(cmp.a)))
        /\ (cmp.a = P_v1_0_0 /\ cmp.b = P_1_0_0) =>
               /\ cmp.r = -1
               /\ BoolToFloat64(cmp.r < 0) = 1
               /\ ComplianceSample("NodeIsOutdated", FALSE, Join(cmp.a), "mainnet-beta",
                                   [agave |-> Join(cmp.b), fd |-> Empty, epoch |-> 797]).value = 1
               /\ cmp.na = 10000 /\ cmp.nb = 10000

C28_Witness ==
    /\ cmp.done
    /\ cmp.a = P_v1_0_0
    /\ cmp.b = P_1_0_0
    /\ Join(cmp.a) = <<"v", "1", ".", "0", ".", "0">>
    /\ cmp.r = -1
    /\ cmp.na = cmp.nb

\* C34: for version strings a, b, c of numeric components, compareVersions
\* (a, a) is 0; (a, b) is -1 exactly when (b, a) is 1; (a, b) = -1 and
\* (b, c) = -1 imply (a, c) = -1; and appending one or two ".0" components to
\* either argument leaves the result as it was.
C34_CompareIsAnOrder ==
    (cmp.done /\ cmp.c # << >>) =>
        /\ cmp.rs.aa = 0
        /\ cmp.r = -1 <=> cmp.rs.ba = 1
        /\ (cmp.r = -1 /\ cmp.rs.bc = -1) => cmp.rs.ac = -1
        /\ cmp.rs.a0b = cmp.r
        /\ cmp.rs.a00b = cmp.r
        /\ cmp.rs.ab0 = cmp.r
        /\ cmp.rs.a0b0 = cmp.r

C34_Witness ==
    /\ cmp.done
    /\ Join(cmp.a) = <<"9">>
    /\ Join(cmp.b) = <<"9", ".", "1", "0">>
    /\ Join(cmp.c) = <<"1", "0", ".", "0">>
    /\ cmp.r = -1 /\ cmp.rs.bc = -1 /\ cmp.rs.ac = -1
    /\ cmp.rs.a00b = -1

\* C35: with the flag set and a resolved record whose firedancer minimum is
\* empty, the required version is the empty string, which compareVersions
\* reads as 0, so the node-outdated sample has value 0 (not outdated) for
\* every node version, whatever the agave minimum of the record.
C35_EmptyAlternateNeverOutdated ==
    (cmp.done /\ cmp.c = << >> /\ cmp.a # << >>) =>
        LET r == [agave |-> Join(cmp.b), fd |-> Empty, epoch |-> 797]
            x == ComplianceSample("NodeIsOutdated", TRUE, Join(cmp.a), "mainnet-beta", r)
        IN  /\ RequiredVersion(TRUE, r) = Empty
            /\ Split(Empty) = << Empty >> /\ Atoi(Empty) = 0
            /\ compareVersions(Join(cmp.a), RequiredVersion(TRUE, r)) >= 0
            /\ x.required = Empty
            /\ x.isFd = "1"
            /\ x.value = 0

\* The node is below the agave minimum and still not valued outdated.
C35_Witness ==
    /\ cmp.done
    /\ cmp.a = P_1_9_9
    /\ cmp.b = P_1_10_0
    /\ cmp.r = -1
    /\ ComplianceSample("NodeIsOutdated", TRUE, Join(cmp.a), "mainnet-beta",
                        [agave |-> Join(cmp.b), fd |-> Empty, epoch |-> 797]).value = 0

-----------------------------------------------------------------------------
(* Properties of the pass *)

StepsOfPass ==
    << "health", "minLedger", "firstBlock", "voteAccounts", "version", "identity",
       "balances", "minRequired", "outdated", "needsUpdate" >>

Range(f) == { f[i] : i \in DOMAIN f }

\* The steps that send a sample or a marker whatever their calls answer.
AlwaysSends ==
    [ health |-> {"NodeIsHealthy", "NodeNumSlotsBehind"},
      minLedger |-> {"NodeMinimumLedgerSlot"},
      firstBlock |-> {"NodeFirstAvailableBlock"},
      version |-> {"NodeVersion"},
      identity |-> {"NodeIdentity"},
      minRequired |-> {"FoundationMinRequiredVersion"} ]

\* No step has aborted the pass: a pass that has ended has run all ten steps,
\* and every step that has just run has sent what it sends on success or on
\* failure.
NoStepAborts ==
    /\ pc = "done" => Range(executed) = Range(StepsOfPass)
    /\ pc \notin {"idle", "health"} => executed # << >>
    /\ \A st \in DOMAIN AlwaysSends :
          (executed # << >> /\ executed[Len(executed)] = st)
              => \A f \in AlwaysSends[st] : \E x \in ch : x.family = f

\* C2: whatever collaborator calls fail or succeed, no step aborts the pass
\* (a pass that has ended has run all ten steps, each one sending its samples
\* or its markers, a failed vote-accounts fetch included), and a pass that
\* has begun reaches its end.
C2_FailureIsolation == [](NoStepAborts) /\ ((pc = "health") ~> (pc = "done"))

C2_Witness ==
    /\ pc = "done"
    /\ voteFailed
    /\ \E x \in samples : x.family = "FoundationMinRequiredVersion" /\ x.valid
    /\ \E x \in samples : x.family = "NodeIsOutdated" /\ x.valid
    /\ \E x \in samples : x.family = "NodeNeedsUpdate" /\ x.valid

\* C3: the steps of a pass run in the order health, minimum-ledger-slot,
\* first-available-block, vote-accounts, version detection, identity,
\* balances, min-required-version, node-outdated, node-needs-update; version
\* detection has run when node-outdated or node-needs-update is about to run.
C3_StepOrder ==
    /\ Len(executed) <= Len(StepsOfPass)
    /\ \A i \in DOMAIN executed : executed[i] = StepsOfPass[i]
    /\ pc \in {"outdated", "needsUpdate"} => "version" \in Range(executed)
    /\ pc \in Range(StepsOfPass) => pc = StepsOfPass[Len(executed) + 1]

C3_Witness ==
    /\ pc = "done"
    /\ executed = StepsOfPass
    /\ \E x \in samples : x.family = "NodeVersion" /\ x.isFd = "1"
    /\ \E x \in samples : x.family = "NodeIsOutdated" /\ x.isFd = "1"
    /\ \E x \in samples : x.family = "NodeNeedsUpdate" /\ x.isFd = "1"

\* The step of the pass that ran last, "none" before the first.
LastStep == IF executed = << >> THEN "none" ELSE executed[Len(executed)]

\* The version of a resolution that the flag designates.
Designates(r) == IF isFiredancer THEN r.fd ELSE r.agave

C17_SilentOnFailure ==
    (/\ LastStep \in {"outdated", "needsUpdate"}
     /\ \/ answers.version = "ok" /\ ret.err # "none"
        \/ answers.genesis \in {"error", "unknown"})
        => ch = {}

\* The families of the steps bound to a descriptor.
StepFamilies ==
    [ health |-> {"NodeIsHealthy", "NodeNumSlotsBehind"},
      minLedger |-> {"NodeMinimumLedgerSlot"},
      firstBlock |-> {"NodeFirstAvailableBlock"},
      voteAccounts |-> VoteFamilies,
      version |-> {"NodeVersion"},
      identity |-> {"NodeIdentity"} \cup (IF ActiveIdentity # "" THEN {"NodeIsActive"} ELSE {}),
      balances |-> {"AccountBalances"},
      minRequired |-> {"FoundationMinRequiredVersion"} ]

\* C18: a step bound to a descriptor that fails sends for each of its
\* families a marker that carries the error, and no sample of that family.
C18_FailedStepMarks ==
    \A st \in DOMAIN StepFamilies :
        LastStep = st =>
            /\ \A x \in ch : ~x.valid => x.err # "nil"
            /\ \A f \in StepFamilies[st] :
                  ~(\E x, y \in ch : x.family = f /\ y.family = f /\ x.valid /\ ~y.valid)
            /\ (st # "health" /\ \E x \in ch : ~x.valid) =>
                  \A f \in StepFamilies[st] : \E x \in ch : x.family = f /\ ~x.valid

\* C19: the detection step probes only after GetVersion succeeded, and it
\* sets the flag only when the probe returned without error and with status
\* 200; no other step and no other outcome changes the flag.
C19_FlagSetOnlyByProbe ==
    [][/\ pc # "version" => isFiredancer' = isFiredancer
       /\ (pc = "version" /\ pc' # "version") =>
             /\ answers'.version # "ok" => answers'.probe = "none"
             /\ answers'.probe # "200" => isFiredancer' = isFiredancer
             /\ (isFiredancer' /\ ~isFiredancer) =>
                   (answers'.version = "ok" /\ answers'.probe = "200")
             /\ answers'.probe = "200" => isFiredancer']_vars

C19_Witness ==
    /\ LastStep = "version"
    /\ answers.version = "ok"
    /\ answers.probe = "200"
    /\ isFiredancer
    /\ \E x \in ch : x.family = "NodeVersion" /\ x.isFd = "1"

\* C20: the flag the compliance steps of a pass read is the one the
\* detection step of that pass established: a compliance sample is labelled
\* firedancer only in a pass whose own detection found firedancer.
C20_FlagIsPerPass ==
    \A x \in samples :
        (x.family \in {"NodeIsOutdated", "NodeNeedsUpdate"} /\ x.isFd = "1")
            => \E y \in samples : y.family = "NodeVersion" /\ y.valid /\ y.isFd = "1"

\* C23: with light mode on, the vote-accounts and the balances steps make no
\* RPC call and send neither samples nor markers, while the pass still runs
\* its ten steps in order and every other step makes its calls and sends its
\* samples or markers as it does with light mode off.
C23_LightMode ==
    config.LightMode =>
        /\ ~voteFailed
        /\ LastStep \in {"voteAccounts", "balances"} => (ch = {} /\ answers.rpc = 0)
        /\ LastStep \in Range(StepsOfPass) \ {"voteAccounts", "balances"} => answers.rpc >= 1
        /\ \A st \in DOMAIN AlwaysSends :
              LastStep = st => \A f \in AlwaysSends[st] : \E x \in ch : x.family = f
        /\ \A x \in ch : x.family \notin VoteFamilies \cup {"AccountBalances"}
        /\ \A i \in DOMAIN executed : executed[i] = StepsOfPass[i]
        /\ pc = "done" => executed = StepsOfPass

C23_Witness ==
    /\ config.LightMode
    /\ LastStep = "balances"
    /\ ch = {}
    /\ answers.rpc = 0
    /\ \E x \in samples : x.family = "NodeVersion" /\ x.valid

\* C29: the min-required-version step calls the cache only when the cluster
\* was resolved; when the genesis-hash fetch or the mapping fails it sends one
\* invalid marker and makes no cache call; when the resolution succeeds it
\* sends exactly one sample of value 1 labelled with the agave minimum, the
\* firedancer minimum, the cluster and the epoch the cache returned; when the
\* resolution fails it sends one invalid marker.
C29_MinRequiredStep ==
    LastStep = "minRequired" =>
        /\ answers.genesis \in {"error", "unknown"} =>
              /\ ret = NoCall
              /\ ch = { NewInvalidMetric("FoundationMinRequiredVersion", "error") }
        /\ answers.genesis = "ok" =>
              /\ ret.op = "current" /\ ret.arg = nodeCluster
              /\ ret.err = "none" =>
                    ch = { [Sample("FoundationMinRequiredVersion") EXCEPT
                               !.value = 1, !.agave = ret.agave, !.fd = ret.fd,
                               !.cluster = ret.cluster, !.epoch = Itoa(ret.epoch)] }
              /\ ret.err # "none" =>
                    ch = { NewInvalidMetric("FoundationMinRequiredVersion", ret.err) }

C29_Witness ==
    /\ LastStep = "minRequired"
    /\ answers.genesis = "ok"
    /\ ret.err = "none"
    /\ \E x \in ch : /\ x.valid /\ x.value = 1 /\ x.agave = V_1_0 /\ x.fd = V_0_5
                     /\ x.cluster = "mainnet-beta" /\ x.epoch = <<"7", "9", "7">>

\* The errors with which the fetch of the authority's list itself fails.
AuthorityErrors == {"network", "decode", "nodata"}

\* C24: failed fetches are not retried within a pass: each step runs once,
\* each call of the cache makes at most one authority request and at most one
\* epoch lookup, and once an authority fetch for the current kind has failed
\* in a pass (the min-required-version step sent its marker), the
\* node-outdated step of the same pass makes no authority request for that
\* kind.
C24_NoRetryInPass ==
    /\ \A i, j \in DOMAIN executed : executed[i] = executed[j] => i = j
    /\ ret.http \in {0, 1} /\ ret.rpc \in {0, 1}
    /\ (/\ LastStep = "outdated"
        /\ ret.op = "current"
        /\ \E x \in samples : /\ x.family = "FoundationMinRequiredVersion"
                              /\ ~x.valid
                              /\ x.err \in AuthorityErrors)
           => ret.http = 0

\* C26: every network call a step of a pass makes (the calls of the RPC
\* client and the call of the cache with its authority fetch, those of
\* node-outdated and node-needs-update included) is made with the context of
\* the pass, the one whose cancellation aborts them.
C26_CallsBoundToPass ==
    (LastStep \in Range(StepsOfPass) /\ answers.rpc >= 1) => answers.ctx = "ctx"

-----------------------------------------------------------------------------
(* Properties of the cache: epochs and failures *)

C27_ValidityIsWallClock ==
    [][ /\ (ret' # ret) =>
             IF cache.lastCheck # 0 /\ now - cache.lastCheck < CacheTimeout
             THEN /\ ret'.hit /\ ret'.http = 0 /\ ret'.rpc = 0 /\ ret'.err = "none"
                  /\ Returned(ret') = Entry(cache, ret'.op)
                  /\ cache' = cache
             ELSE ~ret'.hit /\ ret'.http = 1
        /\ (nodeEpoch' # nodeEpoch) => (cache' = cache /\ ret' = ret /\ now' = now)
      ]_vars

C27_Witness ==
    /\ ret.op = "current"
    /\ ret.hit
    /\ ret.prev.at # 0 /\ ret.prev.E = 797
    /\ nodeEpoch = 798
    /\ ret.epoch = 797
    /\ ret.agave = V_1_0

-----------------------------------------------------------------------------
(* Properties of concurrent calls of the cache *)

\* The entries a single fetch can store.
WholeRecords == { Triple(r) : r \in { x \in AuthorityRecords : x.AgaveMinVersion # Empty } }

Locals(call) == [agave |-> call.agave, fd |-> call.fd, epoch |-> call.epoch]

Finished(call) == call.pc = "done" /\ call.err = "none"

\* C22: under any interleaving of concurrent calls, concurrent misses that
\* each fetch included, a call served from the cache returns the fields of
\* one fetch, never a mix of two; whenever no store is under way the entry
\* is empty or the record of one fetch; and once all calls have returned
\* (one of them with success) the entry is what one of them returned.
C22_NoTornEntry ==
    /\ \A g \in Goroutines :
          (Finished(calls[g]) /\ calls[g].hit) => Locals(calls[g]) \in WholeRecords
    /\ mu.writer = 0 => Entry(cache, "current") \in WholeRecords \cup {NoVersions}
    /\ mu.writer = 0 => (cache.lastCheck = 0 <=> Entry(cache, "current") = NoVersions)
    /\ (/\ \A g \in Goroutines : calls[g].pc = "done"
        /\ \E g \in Goroutines : Finished(calls[g])) =>
           \E g \in Goroutines : Finished(calls[g]) /\ Locals(calls[g]) = Entry(cache, "current")

C22_Witness ==
    \E g, h \in Goroutines :
        /\ Finished(calls[g]) /\ ~calls[g].hit /\ calls[g].agave = V_1_0
        /\ Finished(calls[h]) /\ ~calls[h].hit /\ calls[h].agave = V_1_1
        /\ Entry(cache, "current") = Locals(calls[h])

\* The places of a call where it holds the mutex for reading, for writing.
ReadSection == {"check", "readAgave", "readFd", "readEpoch"}

WriteSection == {"writeAgave", "writeFd", "writeEpoch", "writeLastCheck"}

\* C30: a call holds no lock of the cache while its authority request or its
\* epoch lookup is in flight; the mutex is held only inside the read and the
\* write section, which make no call; so whenever a goroutine waits for the
\* mutex, a goroutine that is not waiting for the network can take a step:
\* no fetch that blocks keeps the others from reading the cache or from
\* storing their own fetch, and no interleaving deadlocks.
C30_NoLockAcrossNetwork ==
    /\ \A g \in Goroutines :
          calls[g].pc \in {"http", "rpc"} => (g \notin mu.readers /\ mu.writer # g)
    /\ \A g \in mu.readers : calls[g].pc \in ReadSection
    /\ mu.writer # 0 => (mu.readers = {} /\ calls[mu.writer].pc \in WriteSection)
    /\ (\E g \in Goroutines : calls[g].pc \in {"RLock", "Lock"}) =>
          \E h \in Goroutines :
              \/ calls[h].pc = "RLock" /\ CanRLock(mu)
              \/ calls[h].pc = "Lock" /\ CanLock(mu)
              \/ calls[h].pc \in ReadSection \cup WriteSection

C30_Witness ==
    \E g, h \in Goroutines :
        /\ calls[g].pc = "http"
        /\ Finished(calls[h]) /\ ~calls[h].hit
        /\ Entry(cache, "current") = Locals(calls[h])
        /\ mu = Unlocked

-----------------------------------------------------------------------------
(* Properties of concurrent passes *)

\* C21: with several passes running at the same time on one collector, the
\* variant flag of a pass is not observed or changed by another pass: the
\* is_firedancer label of the compliance samples of a pass is what the probe
\* of that same pass found.
C21_PassStateIsPrivate ==
    \A g \in Goroutines :
        LET own == IF passes[g].detected THEN "1" ELSE "0"
        IN  /\ passes[g].outdated \in {"0", "1"} => passes[g].outdated = own
            /\ passes[g].needsUpdate \in {"0", "1"} => passes[g].needsUpdate = own

-----------------------------------------------------------------------------
(* Properties of the cache: an expired entry *)

\* The call found an entry of its kind written CacheTimeout ago or earlier
\* and went to the authority.
RefreshOfExpired(r) ==
    /\ r.op \in Kinds
    /\ r.prev.at # 0 /\ r.prev.agave # Empty
    /\ r.at - r.prev.at >= CacheTimeout
    /\ r.http = 1

\* C31: when the entry has expired and the fetch that refreshes it fails,
\* the call returns the error with empty versions and epoch 0 (and the
\* cluster it was given); the versions of the expired entry are not returned.
C31_NoStaleFallback ==
    (RefreshOfExpired(ret) /\ ret.err # "none") =>
        /\ ~ret.hit
        /\ Returned(ret) = NoVersions
        /\ ret.cluster = ret.arg
        /\ Returned(ret) # [agave |-> ret.prev.agave, fd |-> ret.prev.fd, epoch |-> ret.prev.epoch]

C31_Witness ==
    /\ RefreshOfExpired(ret)
    /\ ret.op = "current"
    /\ ret.err = "network"
    /\ ret.prev.agave = V_1_0
    /\ Entry(cache, "current").agave = V_1_0

-----------------------------------------------------------------------------
(* Properties of the pass: samples of one pass compared *)

\* C32: in a pass in which the min-required-version step sent a valid sample
\* and the node-outdated step sent a sample, the two samples carry the same
\* cluster and the same epoch, and the required version of the node-outdated
\* sample is the agave or the firedancer minimum of the other sample.
C32_SameResolution ==
    \A x, y \in samples :
        (x.family = "FoundationMinRequiredVersion" /\ x.valid /\ y.family = "NodeIsOutdated") =>
            /\ y.cluster = x.cluster
            /\ y.epoch = x.epoch
            /\ y.required \in {x.agave, x.fd}

\* C33: within one pass, the is_firedancer label of the node-version sample
\* equals the is_firedancer label of the node-outdated and node-needs-update
\* samples of that pass.
C33_SameVariantLabel ==
    \A x, y \in samples :
        (/\ x.family = "NodeVersion" /\ x.valid
         /\ y.family \in {"NodeIsOutdated", "NodeNeedsUpdate"}) => y.isFd = x.isFd

-----------------------------------------------------------------------------
(* Properties of collectVoteAccounts *)

\* The accounts of both lists, the samples of one family that the call sent,
\* and the condition under which an account is followed one by one.
BothLists == votes.Current \o votes.Delinquent

SentOf(family) == SelectSeq(votes.ch, LAMBDA x : x.family = family)

Followed(account) ==
    account.NodePubkey \in votes.config.NodeKeys \/ votes.config.ComprehensiveVoteAccountTracking

FollowedIn(list) == { i \in 1..Len(list) : Followed(list[i]) }

Carries(x, account, value) ==
    x.valid /\ x.labels = << account.VotePubkey, account.NodePubkey >> /\ x.value = value

\* The samples of a per-validator family are those of the followed accounts
\* of the list, one each, with the value given by val.
OnePerFollowed(sent, list, val(_)) ==
    /\ \A i \in FollowedIn(list) :
          \E k \in 1..Len(sent) : Carries(sent[k], list[i], val(list[i]))
    /\ \A k \in 1..Len(sent) :
          \E i \in FollowedIn(list) : Carries(sent[k], list[i], val(list[i]))

RECURSIVE SumOfStake(_)
SumOfStake(n) == IF n = 0 THEN 0 ELSE SumOfStake(n - 1) + stake(BothLists[n])

\* The largest member of a set of slots, 0 for the empty set
Largest(S) == CHOOSE m \in S \cup {0} : \A x \in S \cup {0} : x <= m

Zero(account) == 0
One(account) == 1

\* C36: when GetVoteAccounts succeeds, the stake, last-vote, root-slot and
\* delinquency samples of a validator are sent exactly for the accounts whose
\* node key is configured or when comprehensive tracking is on; the
\* delinquency sample is 0 for an account of the current list and 1 for an
\* account of the delinquent list; and the cluster samples are the sum of the
\* stakes, the largest last vote and the largest root slot of all the accounts
\* of both lists, and the length of each list, whatever the filter leaves out.
C36_VoteAccountSamples ==
    (votes.done /\ ~votes.config.LightMode /\ ~votes.err) =>
        /\ \A x \in { votes.ch[k] : k \in 1..Len(votes.ch) } : x.valid
        /\ OnePerFollowed(SentOf("ValidatorActiveStake"), BothLists, stake)
        /\ OnePerFollowed(SentOf("ValidatorLastVote"), BothLists, lastVote)
        /\ OnePerFollowed(SentOf("ValidatorRootSlot"), BothLists, rootSlot)
        /\ \A f \in {"ValidatorActiveStake", "ValidatorLastVote", "ValidatorRootSlot", "ValidatorDelinquent"} :
              Len(SentOf(f)) = Cardinality(FollowedIn(BothLists))
        /\ LET sent == SentOf("ValidatorDelinquent")
               n == Cardinality(FollowedIn(votes.Current))
           IN  /\ OnePerFollowed(SubSeq(sent, 1, n), votes.Current, Zero)
               /\ OnePerFollowed(SubSeq(sent, n + 1, Len(sent)), votes.Delinquent, One)
        /\ SentOf("ClusterActiveStake")
              = << MustNewConstMetric("ClusterActiveStake", SumOfStake(Len(BothLists)), << >>) >>
        /\ SentOf("ClusterLastVote")
              = << MustNewConstMetric("ClusterLastVote",
                                      Largest({ BothLists[i].LastVote : i \in 1..Len(BothLists) }), << >>) >>
        /\ SentOf("ClusterRootSlot")
              = << MustNewConstMetric("ClusterRootSlot",
                                      Largest({ BothLists[i].RootSlot : i \in 1..Len(BothLists) }), << >>) >>
        /\ SentOf("ClusterValidatorCount")
              = << MustNewConstMetric("ClusterValidatorCount", Len(votes.Current), << "current" >>),
                   MustNewConstMetric("ClusterValidatorCount", Len(votes.Delinquent), << "delinquent" >>) >>

\* A call with one followed account in the current list and one account that
\* is not followed, with the larger stake and slots, in the delinquent list.
C36_Witness ==
    /\ votes.done /\ ~votes.config.LightMode /\ ~votes.err
    /\ votes.config.NodeKeys = {"AAA"} /\ ~votes.config.ComprehensiveVoteAccountTracking
    /\ Len(votes.Current) = 1 /\ Len(votes.Delinquent) = 1
    /\ votes.Current[1].NodePubkey = "AAA" /\ votes.Delinquent[1].NodePubkey = "BBB"
    /\ votes.Current[1].ActivatedStake = LamportsInSol /\ votes.Delinquent[1].ActivatedStake = 2 * LamportsInSol
    /\ votes.Current[1].LastVote = 1 /\ votes.Delinquent[1].LastVote = 2
    /\ votes.Current[1].RootSlot = 0 /\ votes.Delinquent[1].RootSlot = 1
    /\ Len(votes.ch) = 9
    /\ SentOf("ValidatorDelinquent") = << MustNewConstMetric("ValidatorDelinquent", 0, << "aaa", "AAA" >>) >>
    /\ SentOf("ClusterActiveStake") = << MustNewConstMetric("ClusterActiveStake", 3, << >>) >>
    /\ SentOf("ClusterLastVote") = << MustNewConstMetric("ClusterLastVote", 2, << >>) >>

====
